---- MODULE Spec2Model ----
(***************************************************************************)
(* gdoh: a UDP -> DNS-over-HTTPS forwarding proxy (rollcat/gdoh).          *)
(*                                                                         *)
(* The model follows the latest revision of the program                    *)
(* (src/unnamed/part_001): the dispatch loop of main, the goroutine        *)
(* started per datagram, DoHClient.RawQuery / DoHClient.Query, and the     *)
(* dialContext hook that resolves hostname endpoints through the root      *)
(* client.  The UDP socket, the HTTP transport and the upstream servers    *)
(* are the environment: their results are nondeterministic choices.        *)
(*                                                                         *)
(* Spec is the program as it runs.  ClientSpec is the two methods of       *)
(* DoHClient called directly, with arguments the program itself never      *)
(* gives them.                                                             *)
(***************************************************************************)
EXTENDS Integers, Sequences, FiniteSets, TLC

\* ------------------------------------------------------------------ bounds

\* Iterations of the dispatch loop (successful or failed reads) in one run.
MaxReads == 2

\* rand.Int() is drawn from 0..MaxRand.
MaxRand == 3

\* Calls a user of the clients makes one after the other.
MaxCalls == 2

\* ------------------------------------------------------- program constants

\* query := make([]byte, 128)
ReadBufferSize == 128

Nil == "nil"

\* var ErrResolver = errors.New("Resolver error")
ErrResolver == "Resolver error"

\* Errors made by the environment (net/http, net): connect, TLS, read.
ErrTransport == "transport error"
ErrBodyRead == "body read error"

typeNameToNumber ==
    [A |-> 1, NS |-> 2, CNAME |-> 5, SOA |-> 6, PTR |-> 12,
     MX |-> 15, TXT |-> 16, AAAA |-> 28, SRV |-> 33]

\* A host is the sequence of the dot-separated labels of its text: numbers
\* for a dotted quad, strings for a name.
Host1001 == <<1, 0, 0, 1>>
Host1111 == <<1, 1, 1, 1>>
HostGoogle == <<"dns", "google", "com">>
HostCleanBrowsing == <<"doh", "cleanbrowsing", "org">>

\* rootDohClient.Endpoints
RootEndpoints ==
    << [host |-> Host1001, path |-> "/dns-query"],
       [host |-> Host1111, path |-> "/dns-query"] >>

\* dohClient.Endpoints
PrimaryEndpoints ==
    << [host |-> Host1001, path |-> "/dns-query"],
       [host |-> Host1111, path |-> "/dns-query"],
       [host |-> HostGoogle, path |-> "/experimental"],
       [host |-> HostCleanBrowsing, path |-> "/doh/security-filter/"] >>

Endpoints(c) == IF c = "root" THEN RootEndpoints ELSE PrimaryEndpoints

\* Only dohClient's Transport sets DialContext: dialContext; rootDohClient
\* uses http.DefaultClient, whose transport dials with the standard dialer.
\* (HasDialHookAll: the fault of giving both clients the hooked transport.)
HasDialHookAll(c) == TRUE
HasDialHook(c) == c = "primary"

\* c.Endpoints[rand.Int()%len(c.Endpoints)], r being rand.Int() (>= 0).
\* (pickEndpointFirst: the fault of always taking the first endpoint.)
pickEndpointFirst(c, r) == Endpoints(c)[1]
pickEndpoint(c, r) == Endpoints(c)[(r % Len(Endpoints(c))) + 1]

\* net.ParseIP(host) != nil, for the dotted-quad form: four decimal fields,
\* each in 0..255.
\* (ParseIPAlways: the fault of taking every host for an IP literal.)
ParseIPAlways(host) == TRUE
ParseIP(host) == Len(host) = 4 /\ \A k \in 1..4 : host[k] \in 0..255

\* ------------------------------------------------------------ environment

\* UDP source addresses (address+port) of the clients.
AddrA == "10.0.0.1:4001"
AddrB == "10.0.0.2:4002"

\* (MinWholeBuffer: the fault of taking the buffer's length for the number
\* of bytes read.)
MinWholeBuffer(a, b) == b
Min(a, b) == IF a < b THEN a ELSE b

\* A datagram longer than the read buffer.
LongPayload == [k \in 1..(ReadBufferSize + 2) |-> 3]

\* The datagrams the clients may send; the first byte is the query's marker.
Datagrams ==
    { [src |-> AddrA, payload |-> <<1, 5>>],
      [src |-> AddrB, payload |-> <<2, 5>>],
      [src |-> AddrA, payload |-> LongPayload] }

\* What a wire-format upstream answers to a posted query: the query's marker
\* followed by answer bytes of its choice.
Tails == { <<>>, <<7>> }
Marker(q) == IF q = <<>> THEN <<>> ELSE <<q[1]>>
UpstreamAnswer(q, tail) == Marker(q) \o tail

\* A DNS-JSON body: json says whether the text is valid JSON ("ok") or not
\* ("syntax error"); Answer holds the entries of the Answer array the text
\* shows.
AnswerIP1 == <<93, 184, 216, 34>>
AnswerIP2 == <<93, 184, 216, 35>>
JsonBodies ==
    { [json |-> "syntax error", Answer |-> <<>>],
      [json |-> "ok", Answer |-> <<>>],
      [json |-> "ok", Answer |-> << [Type |-> 5, Data |-> <<"cname", "example">>],
                                    [Type |-> 1, Data |-> AnswerIP1] >>],
      [json |-> "ok", Answer |-> << [Type |-> 1, Data |-> AnswerIP1],
                                    [Type |-> 1, Data |-> AnswerIP2] >>] }

\* The result of c.Client.Post / c.Client.Do followed by ioutil.ReadAll:
\* err is the transport's error (Nil: a response arrived), readOk says
\* whether the body could be read to its end.
Outcome(err, status, body, readOk) ==
    [err |-> err, status |-> status, body |-> body, readOk |-> readOk]

FailedOutcome(err) == Outcome(err, 0, <<>>, FALSE)
NoOutcome == Outcome(Nil, 0, <<>>, FALSE)

WireOutcomes(q) ==
    { FailedOutcome(ErrTransport) }
    \cup { Outcome(Nil, 500, UpstreamAnswer(q, <<7>>), TRUE) }
    \cup { Outcome(Nil, 200, UpstreamAnswer(q, <<7>>), FALSE) }
    \cup { Outcome(Nil, 200, UpstreamAnswer(q, t), TRUE) : t \in Tails }

\* What a DNS-JSON upstream may do, its bodies being taken from bodies.
JsonOutcomesOf(bodies) ==
    { Outcome(ErrTransport, 0, [json |-> "none", Answer |-> <<>>], FALSE) }
    \cup { Outcome(Nil, 500, b, TRUE) : b \in { x \in bodies : x.Answer # <<>> } }
    \cup { Outcome(Nil, 200, b, TRUE) : b \in bodies }

JsonOutcomes == JsonOutcomesOf(JsonBodies)

\* An entry of an Answer array in which the members named hold a JSON value
\* of another type than the Go field (a string for Type, a number for Data).
Mistyped(entry, members) ==
    [Type |-> entry.Type, Data |-> entry.Data, mistyped |-> members]

\* Bodies with more kinds of content: three answers of two types, entries
\* with a member of the wrong JSON type, and JSON text that is cut short after
\* its first entry.
MoreJsonBodies ==
    { [json |-> "ok", Answer |-> << [Type |-> 1, Data |-> AnswerIP2],
                                    [Type |-> 5, Data |-> <<"cname", "example">>],
                                    [Type |-> 1, Data |-> AnswerIP1] >>],
      [json |-> "ok", Answer |-> << Mistyped([Type |-> 1, Data |-> <<42>>],
                                             {"Data"}) >>],
      [json |-> "ok", Answer |-> << [Type |-> 1, Data |-> AnswerIP1],
                                    Mistyped([Type |-> 1, Data |-> AnswerIP2],
                                             {"Type"}) >>],
      [json |-> "syntax error", Answer |-> << [Type |-> 1, Data |-> AnswerIP1] >>] }

\* ------------------------------------------------------------ the clients

\* A ([]byte, error) result; a nil slice is the empty sequence.
Result(body, err) == [body |-> body, err |-> err]

\* DoHClient.RawQuery, from the result o of c.Client.Post on: the transport's
\* error unchanged, ErrResolver for a status other than 200, ReadAll's error,
\* else the whole body.
\* (RawQueryNoBody: the fault of returning a body that was never read.)
RawQueryNoBody(o) ==
    IF o.err # Nil THEN Result(<<>>, o.err)
    ELSE IF o.status # 200 THEN Result(<<>>, ErrResolver)
    ELSE IF ~o.readOk THEN Result(<<>>, ErrBodyRead)
    ELSE Result(<<>>, Nil)
RawQuery(o) ==
    IF o.err # Nil THEN Result(<<>>, o.err)
    ELSE IF o.status # 200 THEN Result(<<>>, ErrResolver)
    ELSE IF ~o.readOk THEN Result(<<>>, ErrBodyRead)
    ELSE Result(o.body, Nil)

\* The members of entry e that json.Unmarshal cannot store in the field.
MistypedIn(e) == IF "mistyped" \in DOMAIN e THEN e.mistyped ELSE {}

\* json.Unmarshal on one entry: a member of the wrong JSON type is skipped,
\* which leaves the field at its zero value (0, the empty string), and the
\* decoding goes on.
DecodeEntry(e) ==
    [Type |-> IF "Type" \in MistypedIn(e) THEN 0 ELSE e.Type,
     Data |-> IF "Data" \in MistypedIn(e) THEN <<>> ELSE e.Data]

\* json.Unmarshal(body, &v), whose error is dropped: text that is not valid
\* JSON is rejected before anything is stored and leaves v.Answer empty;
\* valid JSON is decoded entry by entry.
\* (UnmarshalPrefix: the fault of storing what precedes a syntax error.)
UnmarshalPrefix(body) ==
    [k \in 1..Len(body.Answer) |-> DecodeEntry(body.Answer[k])]
Unmarshal(body) ==
    IF body.json = "ok"
    THEN [k \in 1..Len(body.Answer) |-> DecodeEntry(body.Answer[k])]
    ELSE <<>>

\* _, ok := typeNameToNumber[type_]
\* (KnownTypeAny: the fault of not checking the mnemonic.)
KnownTypeAny(type_) == TRUE
KnownType(type_) == type_ \in DOMAIN typeNameToNumber

\* for _, a := range v.Answer { if a.Type == typeNameToNumber[type_] {...} }
\* (FilterAnswersAll: the fault of appending every entry's data.)
FilterAnswersAll(entries, num) ==
    [k \in 1..Len(entries) |-> entries[k].Data]
RECURSIVE FilterAnswers(_, _)
FilterAnswers(entries, num) ==
    IF entries = <<>> THEN <<>>
    ELSE (IF Head(entries).Type = num THEN <<Head(entries).Data>> ELSE <<>>)
         \o FilterAnswers(Tail(entries), num)

\* A ([]string, error) result; done says that the call was made and returned.
Answers(answers, err) == [answers |-> answers, err |-> err, done |-> TRUE]
NoLookup == [answers |-> <<>>, err |-> Nil, done |-> FALSE]

\* DoHClient.Query, from the result o of c.Client.Do on (the mnemonic was
\* found in typeNameToNumber before the request was made).
\* (QueryAnyStatus: the fault of decoding the body whatever the status.)
QueryAnyStatus(type_, o) ==
    IF o.err # Nil THEN Answers(<<>>, o.err)
    ELSE IF ~o.readOk THEN Answers(<<>>, ErrBodyRead)
    ELSE Answers(FilterAnswers(Unmarshal(o.body), typeNameToNumber[type_]), Nil)
Query(type_, o) ==
    IF o.err # Nil THEN Answers(<<>>, o.err)
    ELSE IF o.status # 200 THEN Answers(<<>>, ErrResolver)
    ELSE IF ~o.readOk THEN Answers(<<>>, ErrBodyRead)
    ELSE Answers(FilterAnswers(Unmarshal(o.body), typeNameToNumber[type_]), Nil)

\* net.SplitHostPort / net.JoinHostPort on an address host:port.
Address(host, port) == [host |-> host, port |-> port]
SplitHostPort(address) == <<address.host, address.port>>
JoinHostPort(host, port) == Address(host, port)

\* The address the transport dials for an https endpoint.
DialTarget(endpoint) == Address(endpoint.host, "443")
NoAddress == Address(<<>>, "")

\* One HTTP exchange of a client: its request and the state of its dial.
\*   query    RawQuery's argument, the slice posted (NoSlice for Query's GET)
\*   body     the request body as written on the connection
\*   name, type  Query's arguments (<<>>, Nil for RawQuery's POST)
\*   pc       getconn | hook | lookup | connect | roundtrip | returned
\*   orig     the address the transport asked to dial (NoAddress: none yet)
\*   address  dialContext's variable address
\*   hooks    calls of dialContext made for this exchange
\*   lookups  rootDohClient.Query calls made by dialContext
\*   lookup   the result of that call (NoLookup: none yet)
\*   dialed   the address handed to net.Dialer.DialContext (NoAddress: none)
\*   outcome  how the exchange ended (NoOutcome until pc is returned)
Frame(c, endpoint, query, name, type_) ==
    [client |-> c, endpoint |-> endpoint, query |-> query, body |-> <<>>,
     name |-> name,
     type |-> type_, pc |-> "getconn", orig |-> NoAddress,
     address |-> NoAddress, hooks |-> 0, lookups |-> 0, lookup |-> NoLookup,
     dialed |-> NoAddress, outcome |-> NoOutcome]

\* ------------------------------------------------------------------ state

VARIABLES
    dpc,       \* main: "start", "read" (the for loop), "exited" (the process ended)
    iter,      \* iterations of the for loop begun
    cur,       \* the loop body's variables query and addr
    heap,      \* the buffers made by make([]byte, 128): id -> contents (<<>>: not made)
    recv,      \* per iteration: what ReadMsgUDP did (read: "none" yet, "ok", "err")
    handlers,  \* per iteration: the goroutine started for it
    log,       \* what was logged: <<message, iteration>>
    call       \* a call of RawQuery or Query made on a client directly

vars == <<dpc, iter, cur, heap, recv, handlers, log, call>>

Iterations == 1..MaxReads

\* A slice buffer[:n].
Slice(b, n) == [buf |-> b, n |-> n]
NoSlice == Slice(0, 0)

\* What ReadMsgUDP returned in an iteration.
NoRead == [read |-> "none", src |-> Nil, payload |-> <<>>]
FailedRead == [read |-> "err", src |-> Nil, payload |-> <<>>]
ReadOf(d) == [read |-> "ok", src |-> d.src, payload |-> d.payload]

\* The WriteMsgUDP call of a goroutine: its arguments, and ok if it sent the
\* datagram.
NoWrite == [addr |-> Nil, payload |-> <<>>, ok |-> FALSE]

\* A goroutine: pc is idle (not started), spawned, call (in RawQuery), write
\* (RawQuery returned), done.
IdleHandler ==
    [pc |-> "idle", query |-> NoSlice, addr |-> Nil, stack |-> <<>>,
     resp |-> <<>>, err |-> Nil, writes |-> 0, sent |-> NoWrite]

NoEndpoint == [host |-> <<>>, path |-> ""]

\* A call made on a client directly, as a user of DoHClient makes it:
\*   pc        idle | picked (the endpoint is chosen) | request (the HTTP
\*             request is out) | returned
\*   fn        "RawQuery" or "Query"; client, query, name, type: its receiver
\*             and arguments
\*   endpoint  what pickEndpoint returned; picks: calls of pickEndpoint
\*   requests  calls of c.Client.Post / c.Client.Do
\*   outcome   how the exchange ended
\*   raw, answers  what RawQuery, Query returned
\*   calls     calls made so far; last: the endpoint of the call before this
\*             one (NoEndpoint: none was picked) and whether that call failed
IdleCall ==
    [pc |-> "idle", fn |-> "", client |-> "", query |-> <<>>, name |-> <<>>,
     type |-> "", endpoint |-> NoEndpoint, picks |-> 0, requests |-> 0,
     outcome |-> NoOutcome, raw |-> Result(<<>>, Nil), answers |-> NoLookup,
     calls |-> 0, last |-> [endpoint |-> NoEndpoint, failed |-> FALSE]]

Init ==
    /\ dpc = "start"
    /\ iter = 0
    /\ cur = [query |-> NoSlice, addr |-> Nil]
    /\ heap = [b \in Iterations |-> <<>>]
    /\ recv = [i \in Iterations |-> NoRead]
    /\ handlers = [i \in Iterations |-> IdleHandler]
    /\ log = {}
    /\ call = IdleCall

\* ------------------------------------------------------------- dispatcher

Logged(msgs, i) == { <<m, i>> : m \in msgs }

\* main up to the for loop: the Endpoint check, flag.Parse, ResolveUDPAddr,
\* ListenUDP; each failure is log.Fatal.
StartupOk ==
    /\ dpc = "start"
    /\ Len(PrimaryEndpoints) # 0
    /\ dpc' = "read"
    /\ log' = log \cup Logged({"Listening"}, 0)
    /\ UNCHANGED <<iter, cur, heap, recv, handlers, call>>

\* log.Fatal(...) prints and ends the process with os.Exit(1).
\* (AfterFatalLogOnly: the fault of logging the error and going on.)
AfterFatalLogOnly(p) == "read"
AfterFatal(p) == "exited"

FatalReasons == {"No endpoints configured", "ResolveUDPAddr", "ListenUDP"}

StartupFatal ==
    /\ dpc = "start"
    /\ \E why \in FatalReasons :
         /\ (why = "No endpoints configured") <=> (Len(PrimaryEndpoints) = 0)
         /\ log' = log \cup Logged({why}, 0)
    /\ dpc' = AfterFatal(dpc)
    /\ UNCHANGED <<iter, cur, heap, recv, handlers, call>>

\* The for loop is at ReadMsgUDP: `go func(...)` returns at once, so the loop
\* never waits for a goroutine it started.
\* (DispatcherReadySync: the fault of calling the handler without `go`.)
DispatcherReadySync ==
    dpc = "read" /\ \A i \in Iterations : handlers[i].pc \in {"idle", "done"}
DispatcherReady == dpc = "read"

\* query := make([]byte, 128): a buffer of its own for iteration i.
\* (NewBufferShared: the fault of making one buffer before the loop.)
NewBufferShared(i) == 1
NewBuffer(i) == i

Zeros == [k \in 1..ReadBufferSize |-> 0]

\* ReadMsgUDP(query, nil) copies the datagram's first len(query) bytes.
ReadInto(buf, payload) ==
    [k \in 1..ReadBufferSize |-> IF k <= Len(payload) THEN payload[k] ELSE buf[k]]

\* The bytes of the slice q = buffer[:n].
QueryBytes(q) == SubSeq(heap[q.buf], 1, q.n)

\* log.Print("read error:", ...); continue -- the process goes on.
\* (AfterReadErrorFatal: the fault of panicking on a read error.)
AfterReadErrorFatal(p) == "exited"
AfterReadError(p) == p

\* A datagram arrives: the buffer is cut to the n bytes read and the goroutine
\* is started with the slice and the source address as its arguments.
ReadOk ==
    /\ DispatcherReady
    /\ iter < MaxReads
    /\ \E d \in Datagrams :
         LET i == iter + 1
             b == NewBuffer(i)
             n == Min(Len(d.payload), ReadBufferSize)
             query == Slice(b, n)
         IN /\ iter' = i
            /\ heap' = [heap EXCEPT ![b] = ReadInto(Zeros, d.payload)]
            /\ recv' = [recv EXCEPT ![i] = ReadOf(d)]
            /\ cur' = [query |-> query, addr |-> d.src]
            /\ handlers' = [handlers EXCEPT ![i] =
                   [IdleHandler EXCEPT !.pc = "spawned", !.query = query,
                                       !.addr = d.src]]
    /\ UNCHANGED <<dpc, log, call>>

\* ReadMsgUDP fails: logged, no goroutine, on to the next iteration.
ReadErr ==
    /\ DispatcherReady
    /\ iter < MaxReads
    /\ LET i == iter + 1
           b == NewBuffer(i)
       IN /\ iter' = i
          /\ heap' = [heap EXCEPT ![b] = Zeros]
          /\ recv' = [recv EXCEPT ![i] = FailedRead]
          /\ cur' = [query |-> Slice(b, ReadBufferSize), addr |-> Nil]
          /\ log' = log \cup Logged({"read error"}, i)
          /\ dpc' = AfterReadError(dpc)
    /\ UNCHANGED <<handlers, call>>

\* ---------------------------------------------------------------- handler

\* resp = []byte{0}
\* (ErrorReplyEmpty: the fault of leaving resp nil on an error.)
ErrorReplyEmpty == <<>>
ErrorReply == <<0>>

\* After RawQuery the goroutine always goes on to WriteMsgUDP.
\* (NextAfterQueryReturnOnError: the fault of returning on an error.)
NextAfterQueryReturnOnError(err) == IF err # Nil THEN "done" ELSE "write"
NextAfterQuery(err) == "write"

\* log.Print("query error:", ...) -- the process goes on.
\* (AfterQueryErrorFatal: the fault of panicking on a query error.)
AfterQueryErrorFatal(p) == "exited"
AfterQueryError(p) == p

\* WriteMsgUDP(resp, nil, addr): the address the goroutine was given.
\* (ReplyAddrCurrent: the fault of reading the loop's addr instead.)
ReplyAddrCurrent(h) == cur.addr
ReplyAddr(h) == h.addr

Top(h) == h.stack[Len(h.stack)]
SetTop(h, f) == [h EXCEPT !.stack[Len(h.stack)] = f]
Pop(h) == [h EXCEPT !.stack = SubSeq(h.stack, 1, Len(h.stack) - 1)]

\* resp, err := dohClient.RawQuery(query); if err != nil { log; resp = {0} }
AfterRawQuery(h, res) ==
    [h |-> [h EXCEPT !.resp = IF res.err # Nil THEN ErrorReply ELSE res.body,
                     !.err = res.err,
                     !.pc = NextAfterQuery(res.err)],
     logs |-> IF res.err # Nil THEN {"query error"} ELSE {},
     failed |-> res.err # Nil]

\* dialContext after rootDohClient.Query returned res: its error, ErrResolver
\* for no answers, else "connect" to a random answer with the original port.
\* (HookAfterLookupIgnoreEmpty: the fault of not checking len(answers).)
HookAfterLookupIgnoreEmpty(res) ==
    IF res.err # Nil THEN res.err
    ELSE "connect"
HookAfterLookup(res) ==
    IF res.err # Nil THEN res.err
    ELSE IF Len(res.answers) = 0 THEN ErrResolver
    ELSE "connect"

\* answers[rand.Int()%len(answers)]; with no answers the index expression
\* cannot be evaluated and the address is left as it was.
\* (PickAnswerKeepHost: the fault of leaving the hostname in the address.)
PickAnswerKeepHost(answers, r, host) == host
PickAnswer(answers, r, host) ==
    IF Len(answers) = 0 THEN host ELSE answers[(r % Len(answers)) + 1]

\* The top exchange of h ends with outcome o. The goroutine's own exchange
\* (RawQuery's Post) hands its result to the goroutine; the exchange of a
\* bootstrap lookup hands Query's result to the dialContext call under it,
\* which goes on to connect or fails the dial it was called for; r is the
\* rand.Int() of the answer's choice.
RECURSIVE FrameReturn(_, _, _)
FrameReturn(h, o, r) ==
    LET f == Top(h)
        nok == IF o.err = Nil /\ o.status # 200 THEN {"response"} ELSE {}
    IN IF Len(h.stack) = 1
       THEN LET a == AfterRawQuery(SetTop(h, [f EXCEPT !.pc = "returned",
                                                           !.outcome = o]),
                                   RawQuery(o))
            IN [a EXCEPT !.logs = @ \cup nok]
       ELSE LET p == Pop(h)
                g == Top(p)
                res == Query(f.type, o)
                next == HookAfterLookup(res)
                hp == SplitHostPort(g.address)
            IN IF next = "connect"
               THEN [h |-> SetTop(p, [g EXCEPT
                              !.pc = "connect",
                              !.lookup = res,
                              !.address = JoinHostPort(
                                  PickAnswer(res.answers, r, hp[1]), hp[2])]),
                     logs |-> nok \cup {"translated"},
                     failed |-> FALSE]
               ELSE LET below == FrameReturn(
                                     SetTop(p, [g EXCEPT !.lookup = res]),
                                     FailedOutcome(next), r)
                    IN [below EXCEPT !.logs = @ \cup nok \cup
                           (IF res.err = Nil THEN {"no answers"} ELSE {})]

\* The goroutine's step with the result of FrameReturn.
Returns(i, a) ==
    /\ handlers' = [handlers EXCEPT ![i] = a.h]
    /\ log' = log \cup Logged(a.logs, i)
    /\ dpc' = IF a.failed THEN AfterQueryError(dpc) ELSE dpc
    /\ UNCHANGED <<iter, cur, heap, recv, call>>

Running(i) == dpc = "read" /\ handlers[i].pc = "call"

\* dohClient.RawQuery(query): c.Client.Post(c.pickEndpoint(), ..., query).
HandlerRawQuery(i) ==
    /\ dpc = "read"
    /\ handlers[i].pc = "spawned"
    /\ \E r \in 0..MaxRand :
         handlers' = [handlers EXCEPT ![i] =
             [@ EXCEPT !.pc = "call",
                       !.stack = << Frame("primary", pickEndpoint("primary", r),
                                          handlers[i].query, <<>>, Nil) >>]]
    /\ UNCHANGED <<dpc, iter, cur, heap, recv, log, call>>

\* The request is written on the connection: a POST's body is read from the
\* caller's slice now.
Sent(f) ==
    [f EXCEPT !.pc = "roundtrip",
              !.body = IF f.query # NoSlice THEN QueryBytes(f.query) ELSE <<>>]

\* The transport has an idle connection to the endpoint: no dial.
GetConnReuse(i) ==
    /\ Running(i)
    /\ Top(handlers[i]).pc = "getconn"
    /\ handlers' = [handlers EXCEPT ![i] = SetTop(@, Sent(Top(@)))]
    /\ UNCHANGED <<dpc, iter, cur, heap, recv, log, call>>

\* The transport dials: through DialContext if the client's transport sets
\* one, else with its standard dialer.
GetConnDial(i) ==
    /\ Running(i)
    /\ Top(handlers[i]).pc = "getconn"
    /\ LET f == Top(handlers[i])
           t == DialTarget(f.endpoint)
       IN handlers' = [handlers EXCEPT ![i] = SetTop(@,
              IF HasDialHook(f.client)
              THEN [f EXCEPT !.pc = "hook", !.orig = t, !.address = t,
                             !.hooks = @ + 1]
              ELSE [f EXCEPT !.pc = "connect", !.orig = t, !.address = t])]
    /\ UNCHANGED <<dpc, iter, cur, heap, recv, log, call>>

\* dialContext: SplitHostPort, then for a host that is no IP literal
\* rootDohClient.Query(host, "A"), which fails at once for a mnemonic that
\* is not in typeNameToNumber and else makes its request.
DialContext(i) ==
    /\ Running(i)
    /\ Top(handlers[i]).pc = "hook"
    /\ LET h == handlers[i]
           f == Top(h)
           hp == SplitHostPort(f.address)
       IN IF ParseIP(hp[1])
          THEN /\ handlers' = [handlers EXCEPT ![i] =
                      SetTop(h, [f EXCEPT !.pc = "connect"])]
               /\ UNCHANGED <<dpc, log>>
          ELSE IF ~KnownType("A")
          THEN Returns(i, FrameReturn(
                   SetTop(h, [f EXCEPT !.lookups = @ + 1,
                                       !.lookup = Answers(<<>>, ErrResolver)]),
                   FailedOutcome(ErrResolver), 0))
          ELSE /\ \E r \in 0..MaxRand :
                    handlers' = [handlers EXCEPT ![i] =
                        [h EXCEPT !.stack =
                            SubSeq(h.stack, 1, Len(h.stack) - 1)
                            \o << [f EXCEPT !.pc = "lookup", !.lookups = @ + 1],
                                  Frame("root", pickEndpoint("root", r),
                                        NoSlice, hp[1], "A") >>]]
               /\ UNCHANGED <<dpc, log>>
    /\ UNCHANGED <<iter, cur, heap, recv, call>>

\* net.Dialer.DialContext(ctx, network, address) connects.
ConnectOk(i) ==
    /\ Running(i)
    /\ Top(handlers[i]).pc = "connect"
    /\ handlers' = [handlers EXCEPT ![i] =
           SetTop(@, Sent([Top(@) EXCEPT !.dialed = Top(handlers[i]).address]))]
    /\ UNCHANGED <<dpc, iter, cur, heap, recv, log, call>>

\* net.Dialer.DialContext fails (refused, timeout): Post / Do fail.
ConnectFail(i) ==
    /\ Running(i)
    /\ Top(handlers[i]).pc = "connect"
    /\ LET h == handlers[i]
           f == Top(h)
       IN Returns(i, FrameReturn(SetTop(h, [f EXCEPT !.dialed = f.address]),
                                 FailedOutcome(ErrTransport), 0))

\* What the upstream may do with the request of exchange f.
OutcomesOf(f) == IF f.type = Nil THEN WireOutcomes(f.body) ELSE JsonOutcomes

\* The upstream answers, or the exchange fails.
Respond(i) ==
    /\ Running(i)
    /\ Top(handlers[i]).pc = "roundtrip"
    /\ \E o \in OutcomesOf(Top(handlers[i])), r \in 0..MaxRand :
         Returns(i, FrameReturn(handlers[i], o, r))

\* The goroutine made its WriteMsgUDP call and is over: only what it did to
\* the socket is kept (ok: the datagram was sent).
Done(h, ok) ==
    [h EXCEPT !.pc = "done", !.stack = <<>>, !.query = NoSlice,
              !.writes = @ + 1,
              !.sent = [addr |-> ReplyAddr(h), payload |-> h.resp, ok |-> ok]]

\* ln.WriteMsgUDP(resp, nil, addr) sends the datagram.
WriteOk(i) ==
    /\ dpc = "read"
    /\ handlers[i].pc = "write"
    /\ handlers' = [handlers EXCEPT ![i] = Done(@, TRUE)]
    /\ UNCHANGED <<dpc, iter, cur, heap, recv, log, call>>

\* ln.WriteMsgUDP fails: logged, nothing else.
WriteFail(i) ==
    /\ dpc = "read"
    /\ handlers[i].pc = "write"
    /\ handlers' = [handlers EXCEPT ![i] = Done(@, FALSE)]
    /\ log' = log \cup Logged({"write error"}, i)
    /\ UNCHANGED <<dpc, iter, cur, heap, recv, call>>

Handler(i) ==
    \/ HandlerRawQuery(i)
    \/ GetConnReuse(i)
    \/ GetConnDial(i)
    \/ DialContext(i)
    \/ ConnectOk(i)
    \/ ConnectFail(i)
    \/ Respond(i)
    \/ WriteOk(i)
    \/ WriteFail(i)

Next ==
    \/ StartupOk
    \/ StartupFatal
    \/ ReadOk
    \/ ReadErr
    \/ \E i \in Iterations : Handler(i)

Spec == Init /\ [][Next]_vars

\* ------------------------------------------------- the clients, as called

\* RawQuery and Query are exported methods: besides main and dialContext any
\* caller may use them, on either client and with arguments of its own. Here
\* such a caller makes its calls one after the other.
program == <<dpc, iter, cur, heap, recv, handlers, log>>

Clients == {"primary", "root"}
Queries == { <<1, 5>>, <<2, 5>> }
Names == { <<"example", "com">>, HostGoogle }

\* Three mnemonics of typeNameToNumber and one that is not in it.
Mnemonics == {"A", "CNAME", "MX", "ZZZ"}

\* What RawQuery or Query returned as its error.
CallErr(c) == IF c.fn = "RawQuery" THEN c.raw.err ELSE c.answers.err

\* The record of a new call, made after the call c.
NewCall(c) ==
    [IdleCall EXCEPT
        !.calls = c.calls + 1,
        !.last = IF c.picks > 0
                 THEN [endpoint |-> c.endpoint, failed |-> CallErr(c) # Nil]
                 ELSE c.last]

CanCall == call.pc \in {"idle", "returned"} /\ call.calls < MaxCalls

\* c.RawQuery(query) up to the evaluation of Post's arguments: c.pickEndpoint().
CallRawQuery ==
    /\ CanCall
    /\ \E c \in Clients, q \in Queries, r \in 0..MaxRand :
         call' = [NewCall(call) EXCEPT
                     !.fn = "RawQuery", !.client = c, !.query = q,
                     !.endpoint = pickEndpoint(c, r), !.picks = 1,
                     !.pc = "picked"]
    /\ UNCHANGED program

\* c.Query(name, type_) up to url.Parse(c.pickEndpoint()): a mnemonic that is
\* not in typeNameToNumber returns ErrResolver before anything else is done.
CallQuery ==
    /\ CanCall
    /\ \E c \in Clients, name \in Names, type_ \in Mnemonics :
         LET new == [NewCall(call) EXCEPT !.fn = "Query", !.client = c,
                                          !.name = name, !.type = type_]
         IN IF ~KnownType(type_)
            THEN call' = [new EXCEPT !.answers = Answers(<<>>, ErrResolver),
                                     !.pc = "returned"]
            ELSE \E r \in 0..MaxRand :
                   call' = [new EXCEPT !.endpoint = pickEndpoint(c, r),
                                       !.picks = 1, !.pc = "picked"]
    /\ UNCHANGED program

\* c.Client.Post(...) / c.Client.Do(req): the one HTTP request of the call.
CallDo ==
    /\ call.pc = "picked"
    /\ call' = [call EXCEPT !.requests = @ + 1, !.pc = "request"]
    /\ UNCHANGED program

\* What the upstream may do with the request of call c.
CallOutcomes(c) ==
    IF c.fn = "RawQuery" THEN WireOutcomes(c.query)
    ELSE JsonOutcomesOf(JsonBodies \cup MoreJsonBodies)

\* Post / Do return, and the rest of RawQuery / Query runs to its return.
CallReturn ==
    /\ call.pc = "request"
    /\ \E o \in CallOutcomes(call) :
         call' = IF call.fn = "RawQuery"
                 THEN [call EXCEPT !.outcome = o, !.raw = RawQuery(o),
                                   !.pc = "returned"]
                 ELSE [call EXCEPT !.outcome = o,
                                   !.answers = Query(call.type, o),
                                   !.pc = "returned"]
    /\ UNCHANGED program

ClientNext ==
    \/ CallRawQuery
    \/ CallQuery
    \/ CallDo
    \/ CallReturn

ClientSpec == Init /\ [][ClientNext]_vars

\* ------------------------------------------------------------ properties

Received(i) == recv[i].read = "ok"
Finished(i) == handlers[i].pc = "done"

\* The bytes of a datagram that fit the read buffer.
Forwarded(payload) == SubSeq(payload, 1, Min(Len(payload), ReadBufferSize))

\* C1, as stated: every received datagram whose goroutine is over has had
\* exactly one reply datagram sent to its sender, whatever happened.
C1_ExactlyOneReplySent ==
    \A i \in Iterations :
        (Received(i) /\ Finished(i)) =>
            /\ handlers[i].writes = 1
            /\ handlers[i].sent.ok
            /\ handlers[i].sent.addr = recv[i].src

\* C1, amended: for every received datagram a goroutine is started, which
\* calls WriteMsgUDP exactly once, after RawQuery returned (with a result or
\* an error) and addressed to the datagram's sender; it never writes twice,
\* and writes nothing while RawQuery has not returned. The datagram is sent
\* unless that one write fails.
C1_OneWriteToSender ==
    \A i \in Iterations :
        /\ Received(i) <=> handlers[i].pc # "idle"
        /\ handlers[i].writes <= 1
        /\ Finished(i) <=> handlers[i].writes = 1
        /\ Finished(i) <=> handlers[i].sent # NoWrite
        /\ Finished(i) => handlers[i].sent.addr = recv[i].src

\* One goroutine wrote its reply after an upstream success, another after an
\* upstream failure.
C1_Witness ==
    \E i, j \in Iterations :
        /\ Finished(i) /\ handlers[i].err = Nil /\ handlers[i].sent.ok
        /\ Finished(j) /\ handlers[j].err # Nil /\ handlers[j].sent.ok

\* C2: whatever the interleaving, the reply a goroutine writes goes to the
\* source address of its own datagram and is the placeholder or what the
\* upstream answered to that datagram's query bytes (the answer carries the
\* query's marker), never something made from another datagram.
C2_ReplyMatchesOwnQuery ==
    \A i \in Iterations :
        handlers[i].writes > 0 =>
            /\ Received(i)
            /\ handlers[i].sent.addr = recv[i].src
            /\ \/ handlers[i].sent.payload = <<0>>
               \/ \E t \in Tails :
                    handlers[i].sent.payload =
                        UpstreamAnswer(Forwarded(recv[i].payload), t)

\* Two datagrams from different senders were in flight together, and the
\* second was answered first, with its own marker.
C2_Witness ==
    /\ Received(1) /\ Received(2)
    /\ recv[1].src # recv[2].src
    /\ handlers[1].pc = "call" /\ Top(handlers[1]).pc = "roundtrip"
    /\ Finished(2) /\ handlers[2].sent.ok
    /\ handlers[2].sent.payload = <<recv[2].payload[1], 7>>

\* The hosts of the endpoints, by what their text is.
IPLiteralHosts == {Host1001, Host1111}
NamedHosts == {HostGoogle, HostCleanBrowsing}

\* The exchange of goroutine i's RawQuery, while the goroutine keeps it.
InRawQuery(i) == Len(handlers[i].stack) >= 1
Exchange(i) == handlers[i].stack[1]

\* C3: once the loop serves, no step ends the process or the loop (only
\* startup can), and a step of one request's goroutine, failing or not,
\* changes nothing of any other goroutine, of the dispatch loop's variables
\* or of the buffers.
C3_ErrorsIsolated ==
    [][ /\ dpc = "read" => dpc' = "read"
        /\ \A i \in Iterations :
             (handlers[i].pc # "idle" /\ handlers'[i] # handlers[i]) =>
                 /\ \A j \in Iterations \ {i} : handlers'[j] = handlers[j]
                 /\ UNCHANGED <<dpc, iter, cur, heap, recv>> ]_vars

\* A request failed in its bootstrap lookup and its write failed too, and a
\* later request was still received and answered from the upstream.
C3_Witness ==
    /\ dpc = "read"
    /\ Finished(1) /\ handlers[1].err = ErrResolver /\ ~handlers[1].sent.ok
    /\ <<"no answers", 1>> \in log /\ <<"write error", 1>> \in log
    /\ Finished(2) /\ handlers[2].err = Nil /\ handlers[2].sent.ok

\* C4: whatever the goroutines started so far are doing, the loop, once
\* serving, can take the next datagram (as long as the run has reads left).
C4_DispatchNeverBlocked ==
    (dpc = "read" /\ iter < MaxReads) => ENABLED ReadOk

\* The first request waits for its upstream while a second one, received
\* after it, is already being handled.
C4_Witness ==
    /\ handlers[1].pc = "call" /\ Top(handlers[1]).pc = "roundtrip"
    /\ handlers[2].pc = "call" /\ Top(handlers[2]).pc = "getconn"

\* C5: a goroutine holds at most two exchanges, its own and one bootstrap
\* lookup; the lookup's exchange is the root client's, goes to an IP literal
\* and never enters dialContext or makes a lookup of its own; an exchange
\* enters dialContext at most once and makes at most one lookup.
C5_BootstrapOneLevel ==
    \A i \in Iterations :
        /\ Len(handlers[i].stack) <= 2
        /\ \A k \in 1..Len(handlers[i].stack) :
             LET f == handlers[i].stack[k]
             IN /\ f.hooks <= 1
                /\ f.lookups <= 1
                /\ k >= 2 =>
                     /\ f.client = "root"
                     /\ f.endpoint.host \in IPLiteralHosts
                     /\ f.hooks = 0
                     /\ f.lookups = 0
                     /\ f.pc \notin {"hook", "lookup"}

\* A bootstrap lookup has dialed its IP-literal endpoint with the standard
\* dialer and waits for the answer.
C5_Witness ==
    \E i \in Iterations :
        /\ Len(handlers[i].stack) = 2
        /\ handlers[i].stack[1].pc = "lookup"
        /\ handlers[i].stack[2].pc = "roundtrip"
        /\ handlers[i].stack[2].dialed = DialTarget(handlers[i].stack[2].endpoint)

\* C6: a dial of an IP-literal target makes no bootstrap lookup. A dial of a
\* hostname target makes one lookup, for "A" and the target's host, through
\* the root client; no connection is attempted before that lookup has
\* returned, and a connection attempted has exactly one lookup behind it.
C6_LookupBeforeConnect ==
    \A i \in Iterations :
        InRawQuery(i) /\ Exchange(i).orig # NoAddress =>
            LET f == Exchange(i)
            IN /\ f.orig.host \in IPLiteralHosts => f.lookups = 0
               /\ f.orig.host \in NamedHosts =>
                    /\ f.lookups = (IF f.pc = "hook" THEN 0 ELSE 1)
                    /\ f.pc = "lookup" <=> Len(handlers[i].stack) = 2
                    /\ f.pc = "lookup" =>
                         /\ handlers[i].stack[2].client = "root"
                         /\ handlers[i].stack[2].name = f.orig.host
                         /\ handlers[i].stack[2].type = "A"
                         /\ ~f.lookup.done
                    /\ (f.pc = "connect" \/ f.dialed # NoAddress) =>
                         f.lookup.done /\ f.lookups = 1

\* One request connected to a hostname endpoint after its lookup, another to
\* an IP-literal endpoint without any.
C6_Witness ==
    \E i, j \in Iterations :
        /\ InRawQuery(i) /\ Exchange(i).orig.host \in NamedHosts
        /\ Exchange(i).dialed # NoAddress /\ Exchange(i).lookups = 1
        /\ InRawQuery(j) /\ Exchange(j).orig.host \in IPLiteralHosts
        /\ Exchange(j).dialed # NoAddress /\ Exchange(j).lookups = 0

\* C7: when the bootstrap lookup of a dial failed or returned no answers,
\* the dial is over without any connection attempt, and its error (the
\* lookup's, or ErrResolver for no answers) is what RawQuery returned.
C7_NoConnectWithoutAnswer ==
    \A i \in Iterations :
        (/\ InRawQuery(i)
         /\ Exchange(i).lookup.done
         /\ (Exchange(i).lookup.err # Nil \/ Exchange(i).lookup.answers = <<>>)) =>
            /\ Exchange(i).dialed = NoAddress
            /\ Exchange(i).pc = "returned"
            /\ handlers[i].pc = "write"
            /\ handlers[i].err = (IF Exchange(i).lookup.err # Nil
                                  THEN Exchange(i).lookup.err ELSE ErrResolver)

\* One dial ended on a lookup without answers, another on a failed lookup.
C7_Witness ==
    \E i, j \in Iterations :
        /\ InRawQuery(i) /\ Exchange(i).lookup.done
        /\ Exchange(i).lookup.err = Nil /\ Exchange(i).lookup.answers = <<>>
        /\ InRawQuery(j) /\ Exchange(j).lookup.done
        /\ Exchange(j).lookup.err = ErrTransport

\* C8: once RawQuery has returned an error to a goroutine, the error is
\* logged and the reply is the one byte 0; the goroutine's WriteMsgUDP call
\* is made with that byte and the datagram's source address.
C8_PlaceholderOnError ==
    \A i \in Iterations :
        handlers[i].err # Nil =>
            /\ <<"query error", i>> \in log
            /\ handlers[i].resp = <<0>>
            /\ handlers[i].pc \in {"write", "done"}
            /\ Finished(i) =>
                 /\ handlers[i].writes = 1
                 /\ handlers[i].sent.payload = <<0>>
                 /\ handlers[i].sent.addr = recv[i].src

\* Placeholders were sent for a non-200 status and for a body read error.
C8_Witness ==
    \E i, j \in Iterations :
        /\ Finished(i) /\ handlers[i].err = ErrResolver
        /\ <<"response", i>> \in log /\ handlers[i].sent.ok
        /\ Finished(j) /\ handlers[j].err = ErrBodyRead /\ handlers[j].sent.ok

\* C9: an iteration whose read failed has logged it, started no goroutine
\* and written nothing, and the loop is still serving, able to read again
\* (as long as the run has reads left).
C9_ReadErrorNonFatal ==
    \A i \in Iterations :
        recv[i].read = "err" =>
            /\ <<"read error", i>> \in log
            /\ handlers[i] = IdleHandler
            /\ dpc = "read"
            /\ iter < MaxReads => ENABLED ReadOk /\ ENABLED ReadErr

\* After a failed read the next datagram was received and answered.
C9_Witness ==
    /\ recv[1].read = "err"
    /\ Received(2) /\ Finished(2) /\ handlers[2].sent.ok

\* C10: when the upstream answered RawQuery's request with status 200 and
\* its body was read to the end, RawQuery returned exactly that body and no
\* error.
C10_BodyVerbatim ==
    \A i \in Iterations :
        (/\ InRawQuery(i)
         /\ Exchange(i).pc = "returned"
         /\ Exchange(i).outcome.err = Nil
         /\ Exchange(i).outcome.status = 200
         /\ Exchange(i).outcome.readOk) =>
            /\ handlers[i].err = Nil
            /\ handlers[i].resp = Exchange(i).outcome.body

\* RawQuery returned the two-byte body an upstream sent with status 200.
C10_Witness ==
    \E i \in Iterations :
        /\ InRawQuery(i) /\ Exchange(i).pc = "returned"
        /\ Exchange(i).outcome = Outcome(Nil, 200, <<2, 7>>, TRUE)
        /\ handlers[i].resp = <<2, 7>>

\* A call, made directly on a client, whose request the upstream answered.
Answered(fn) ==
    /\ call.fn = fn
    /\ call.pc = "returned"
    /\ call.requests = 1
    /\ call.outcome.err = Nil

\* C11: when the upstream answered the request of a RawQuery or Query call
\* with a status other than 200, the call returned ErrResolver and a nil
\* result: no byte and no entry of the response body.
C11_Non200IsResolverError ==
    (/\ call.pc = "returned"
     /\ call.requests = 1
     /\ call.outcome.err = Nil
     /\ call.outcome.status # 200) =>
        /\ CallErr(call) = ErrResolver
        /\ call.raw = Result(<<>>, ErrResolver) \/ call.fn = "Query"
        /\ call.answers = Answers(<<>>, ErrResolver) \/ call.fn = "RawQuery"
        /\ call.raw.body = <<>>
        /\ call.answers.answers = <<>>

\* Query("A") got status 500 with a body that holds an A answer, after an
\* earlier call had failed too.
C11_Witness ==
    /\ Answered("Query")
    /\ call.type = "A"
    /\ call.outcome.status = 500
    /\ \E k \in 1..Len(call.outcome.body.Answer) :
         call.outcome.body.Answer[k].Type = 1
    /\ call.answers.err = ErrResolver
    /\ call.last.failed

\* C12: a Query call whose mnemonic is not in typeNameToNumber has returned
\* in the step it was made, with ErrResolver and no answers, and has picked
\* no endpoint and made no HTTP request, whatever the name and the client.
C12_UnknownTypeNoNetwork ==
    (call.fn = "Query" /\ call.type \notin DOMAIN typeNameToNumber) =>
        /\ call.pc = "returned"
        /\ call.answers = Answers(<<>>, ErrResolver)
        /\ call.picks = 0
        /\ call.requests = 0
        /\ call.endpoint = NoEndpoint
        /\ call.outcome = NoOutcome

\* Query(name, "ZZZ") returned, after a call that had made its request.
C12_Witness ==
    /\ call.fn = "Query"
    /\ call.type = "ZZZ"
    /\ call.name = HostGoogle
    /\ call.pc = "returned"
    /\ call.calls = 2
    /\ call.last.endpoint # NoEndpoint

\* The body of an answered Query call is JSON text that fits the schema.
WellFormed(body) ==
    /\ body.json = "ok"
    /\ \A k \in 1..Len(body.Answer) : "mistyped" \notin DOMAIN body.Answer[k]

\* C13: when the upstream answered a Query call with status 200 and a
\* well-formed body, the call returned no error and exactly the data of the
\* Answer entries whose type is the mnemonic's number, in the order of the
\* response: nothing of another type, nothing else.
C13_ExactlyMatchingData ==
    (/\ Answered("Query")
     /\ call.outcome.status = 200
     /\ call.outcome.readOk
     /\ WellFormed(call.outcome.body)) =>
        LET m == SelectSeq(call.outcome.body.Answer,
                           LAMBDA e : e.Type = typeNameToNumber[call.type])
        IN /\ call.answers.err = Nil
           /\ Len(call.answers.answers) = Len(m)
           /\ \A k \in 1..Len(m) : call.answers.answers[k] = m[k].Data

\* Query("A") returned the two A answers of a body that has a CNAME between
\* them.
C13_Witness ==
    /\ Answered("Query")
    /\ call.type = "A"
    /\ call.outcome.status = 200
    /\ Len(call.outcome.body.Answer) = 3
    /\ call.answers = Answers(<<AnswerIP2, AnswerIP1>>, Nil)

\* An answered Query call got status 200 and a body that json.Unmarshal
\* returns an error for.
ParseFailed ==
    /\ Answered("Query")
    /\ call.outcome.status = 200
    /\ call.outcome.readOk
    /\ ~WellFormed(call.outcome.body)

\* C14, as stated: after a parse failure Query returned an empty list and
\* no error.
C14_ParseFailureIsEmpty ==
    ParseFailed => call.answers = Answers(<<>>, Nil)

\* C14, amended: after a parse failure Query returned no error. Its list
\* is empty when the body is not valid JSON; when the body is valid JSON
\* with members of the wrong type, the list is made of the entries whose
\* type member is a number equal to the mnemonic's, each giving its data
\* string, or the empty string if its data member is no string.
C14_ParseFailureIsSilent ==
    ParseFailed =>
        LET body == call.outcome.body
            m == SelectSeq(body.Answer,
                     LAMBDA e : /\ "Type" \notin MistypedIn(e)
                                /\ e.Type = typeNameToNumber[call.type])
        IN /\ call.answers.err = Nil
           /\ body.json # "ok" => call.answers.answers = <<>>
           /\ body.json = "ok" =>
                /\ Len(call.answers.answers) = Len(m)
                /\ \A k \in 1..Len(m) :
                     call.answers.answers[k] =
                         (IF "Data" \in MistypedIn(m[k]) THEN <<>> ELSE m[k].Data)

\* Query("A") returned, without an error, the one-element list holding the
\* empty string, from a body whose only entry has a number as its data.
C14_Witness ==
    /\ ParseFailed
    /\ call.type = "A"
    /\ call.outcome.body.json = "ok"
    /\ Len(call.outcome.body.Answer) = 1
    /\ call.answers = Answers(<< <<>> >>, Nil)

EndpointSet(c) == { Endpoints(c)[k] : k \in 1..Len(Endpoints(c)) }

\* A call makes at most one HTTP request, after its one choice of endpoint,
\* and a request that failed is the call's error: no second request.
AtMostOneRequest ==
    /\ call.picks <= 1
    /\ call.requests <= call.picks
    /\ call.pc = "request" => call.requests = 1
    /\ (call.pc = "returned" /\ call.picks = 1) => call.requests = 1
    /\ (/\ call.pc = "returned"
        /\ call.requests = 1
        /\ (call.outcome.err # Nil \/ call.outcome.status # 200)) =>
            CallErr(call) # Nil

\* Whenever a call can be made, whatever the call before it picked and
\* returned, RawQuery and Query can pick every endpoint of either client.
AnyEndpointOnAnyCall ==
    CanCall =>
        \A c \in Clients : \A e \in EndpointSet(c) :
            /\ ENABLED (CallRawQuery /\ call'.client = c /\ call'.endpoint = e)
            /\ ENABLED (CallQuery /\ call'.client = c /\ call'.endpoint = e)

\* C16, as stated: every RawQuery or Query call made has picked exactly one
\* endpoint, one of its client's; any endpoint can be picked on any call;
\* at most one request per call and no retry.
C16_EveryCallPicksOne ==
    /\ call.fn # "" =>
         call.picks = 1 /\ call.endpoint \in EndpointSet(call.client)
    /\ AtMostOneRequest
    /\ AnyEndpointOnAnyCall

\* C16, amended: every RawQuery call, and every Query call whose mnemonic
\* is in typeNameToNumber, has picked exactly one endpoint, one of its
\* client's; a Query call with another mnemonic has picked none. Any
\* endpoint can be picked on any call; at most one request per call and no
\* retry.
C16_OneEndpointNoRetry ==
    /\ (call.fn = "RawQuery" \/
        (call.fn = "Query" /\ call.type \in DOMAIN typeNameToNumber)) =>
         call.picks = 1 /\ call.endpoint \in EndpointSet(call.client)
    /\ (call.fn = "Query" /\ call.type \notin DOMAIN typeNameToNumber) =>
         call.picks = 0 /\ call.endpoint = NoEndpoint
    /\ AtMostOneRequest
    /\ AnyEndpointOnAnyCall

\* A call has its request out to the very endpoint on which the call before
\* it failed.
C16_Witness ==
    /\ call.pc = "request"
    /\ call.calls = 2
    /\ call.last.failed
    /\ call.endpoint = call.last.endpoint
    /\ call.requests = 1

\* C17: once the bootstrap lookup of a dial has returned answers, the
\* address of the dial has one of the answers as its host and the port the
\* transport asked for; each of the answers can be the one picked; what is
\* handed to net.Dialer is that address. A hostname the transport asked to
\* dial is never what net.Dialer is given.
C17_DialsReturnedAnswer ==
    \A i \in Iterations :
        InRawQuery(i) =>
            LET f == Exchange(i)
                a == f.lookup.answers
            IN /\ (f.lookup.done /\ f.lookup.err = Nil /\ a # <<>>) =>
                    /\ \E k \in 1..Len(a) : f.address.host = a[k]
                    /\ f.address.port = f.orig.port
                    /\ f.dialed \in {NoAddress, f.address}
                    /\ \A k \in 1..Len(a) : \E r \in 0..MaxRand :
                         PickAnswer(a, r, f.orig.host) = a[k]
               /\ f.orig.host \in NamedHosts => f.dialed.host # f.orig.host

\* Two dials got the same two answers: one connected to the first, the
\* other to the second, both on port 443.
C17_Witness ==
    \E i, j \in Iterations :
        /\ InRawQuery(i) /\ InRawQuery(j)
        /\ Exchange(i).lookup.answers = <<AnswerIP1, AnswerIP2>>
        /\ Exchange(j).lookup.answers = <<AnswerIP1, AnswerIP2>>
        /\ Exchange(i).dialed = Address(AnswerIP1, "443")
        /\ Exchange(j).dialed = Address(AnswerIP2, "443")

\* The goroutine of iteration i is started and not over.
InFlight(i) == handlers[i].pc \in {"spawned", "call", "write"}

\* C18: the slice a goroutine is given, the slice it hands to RawQuery and
\* the body posted (if the request got as far as being written) are the
\* datagram's payload when the payload has at most ReadBufferSize (128)
\* bytes, and its first 128 bytes when it is longer.
C18_QueryIsPayloadUpTo128 ==
    \A i \in Iterations :
        InFlight(i) =>
            LET p == recv[i].payload
                want == IF Len(p) <= ReadBufferSize THEN p
                        ELSE SubSeq(p, 1, ReadBufferSize)
            IN /\ Received(i)
               /\ QueryBytes(handlers[i].query) = want
               /\ InRawQuery(i) =>
                    /\ Exchange(i).query = handlers[i].query
                    /\ Exchange(i).pc = "roundtrip" => Exchange(i).body = want
                    /\ Exchange(i).body \in {<<>>, want}

\* A datagram of 130 bytes was posted as its first 128 bytes, and one of two
\* bytes as it was.
C18_Witness ==
    \E i, j \in Iterations :
        /\ InRawQuery(i) /\ Exchange(i).pc = "roundtrip"
        /\ Len(recv[i].payload) = ReadBufferSize + 2
        /\ Len(Exchange(i).body) = ReadBufferSize
        /\ InRawQuery(j) /\ Exchange(j).pc = "roundtrip"
        /\ Exchange(j).body = <<2, 5>>

\* C19: while a goroutine is in flight, no step (a later read of the loop,
\* a step of another goroutine, its own steps) changes its query slice, the
\* buffer behind it or its addr; no two goroutines in flight have the same
\* buffer; and the write that ends it is made with its own addr, the source
\* of its datagram.
C19_HandlerOwnsArguments ==
    [][ \A i \in Iterations :
          InFlight(i) =>
              /\ heap'[handlers[i].query.buf] = heap[handlers[i].query.buf]
              /\ handlers'[i].pc \in {"spawned", "call", "write"} =>
                   /\ handlers'[i].query = handlers[i].query
                   /\ handlers'[i].addr = handlers[i].addr
              /\ handlers'[i].pc = "done" =>
                   handlers'[i].sent.addr = handlers[i].addr
              /\ handlers[i].addr = recv[i].src
              /\ \A j \in Iterations \ {i} :
                   InFlight(j) => handlers[j].query.buf # handlers[i].query.buf
      ]_vars

\* The first request has its answer and is about to write while the loop's
\* variables already hold the second datagram, from another sender; the
\* first goroutine's slice and addr are still those of its own datagram.
C19_Witness ==
    /\ handlers[1].pc = "write"
    /\ handlers[1].err = Nil
    /\ Received(2)
    /\ recv[2].src # recv[1].src
    /\ cur.addr = recv[2].src
    /\ cur.query # handlers[1].query
    /\ handlers[1].addr = recv[1].src
    /\ QueryBytes(handlers[1].query) = recv[1].payload

====
